---- MODULE Spec2Model ----
(***************************************************************************)
(* The gallery page (VideoSearch) of fal-serverless-embeddings: one        *)
(* browsing session, its React state and refs, the debounce timer and the  *)
(* tRPC mutations in flight, together with the service calls that answer   *)
(* them (getRandomEmbeddings, generateQueryEmbedding + searchEmbeddings).  *)
(*                                                                         *)
(* Every handler of the page is one action.  A state setter followed by    *)
(* the effect it triggers (the debounce effect depends on searchQuery and  *)
(* uploadedVideoUrl) is one action, since React runs the effect before     *)
(* the next event is handled.  Callbacks given to useMutation run for      *)
(* every mutate() call, in the order the responses arrive.                 *)
(*                                                                         *)
(* Four specifications share the module.  Spec is the gallery page in      *)
(* front of the full table.  ServiceSpec is the router and the service:    *)
(* every step is one call of a procedure on some table, answered with the  *)
(* faults the environment chooses.  AdminSpec is the admin page with its   *)
(* list query and its delete mutation.  LazyInitSpec is the lazy           *)
(* initialisation of the service under concurrent requests.  Each leaves   *)
(* the state of the others at its initial value.                           *)
(***************************************************************************)
EXTENDS Integers, Sequences, FiniteSets

----------------------------------------------------------------------------
(* Bounds *)

\* number of records of the (static) embeddings table
StoreSize == 3
\* placeholder distances Math.random() * 0.5 are drawn from 0..MaxRandomDistance
MaxRandomDistance == 0
\* remote calls in flight at the same time
MaxInFlight == 2
\* the requests that call getTable() concurrently
MaxRequests == 2

(* The page's batch sizes.  The source has 50 / 30 / 50, more than any store *)
(* that can be enumerated; what the handlers depend on is how a batch        *)
(* relates to the size of the store, so the sizes are scaled with the store: *)
(* a first batch and a search page one smaller than the store, and a         *)
(* load-more batch smaller than the first batch.                             *)

\* const INITIAL_LOAD = 50
INITIAL_LOAD == StoreSize - 1
\* const LOAD_MORE_COUNT = 30
LOAD_MORE_COUNT == INITIAL_LOAD - 1
\* limit: 50 of the debounced search request
SEARCH_LIMIT == StoreSize - 1

----------------------------------------------------------------------------
(* Values *)

\* uploadedVideoUrl = null
NoVideo == "null"

\* the url fal.storage.upload returns
UploadedUrls == {"u1"}

\* values the search input can be set to; a string is a sequence of characters
QueryInputs == {<<>>, <<" ">>, <<"a">>, <<"a", " ">>}

\* no debounce timer pending
NoTimer == [pending |-> FALSE, query |-> <<>>, videoUrl |-> NoVideo]

StoreIds == 1..StoreSize

RandomDistances == 0..MaxRandomDistance

RECURSIVE TrimStart(_)
TrimStart(s) == IF s # <<>> /\ Head(s) = " " THEN TrimStart(Tail(s)) ELSE s

RECURSIVE TrimEnd(_)
TrimEnd(s) ==
    IF s # <<>> /\ s[Len(s)] = " " THEN TrimEnd(SubSeq(s, 1, Len(s) - 1)) ELSE s

\* String.prototype.trim
Trim(s) == TrimEnd(TrimStart(s))

\* Array.prototype.slice(0, n)
Take(s, n) == SubSeq(s, 1, IF n < Len(s) THEN n ELSE Len(s))

IdSet(list) == {list[i].id : i \in DOMAIN list}

\* how often each id occurs in a list
IdCount(list) ==
    [id \in StoreIds |-> Cardinality({i \in DOMAIN list : list[i].id = id})]

Abs(n) == IF n < 0 THEN -n ELSE n

----------------------------------------------------------------------------
(* The service behind the mutations *)

\* every order of the table's records (the outcomes of the Fisher-Yates shuffle)
Shuffles ==
    {p \in [1..StoreSize -> StoreIds] :
        \A i, j \in 1..StoreSize : i # j => p[i] # p[j]}

\* every order in which table.query().toArray() may return the records ids
Orders(ids) ==
    {p \in [1..Cardinality(ids) -> ids] :
        \A i, j \in 1..Cardinality(ids) : i # j => p[i] # p[j]}

\* the stored vector of a record, on a line
EmbeddingOf(id) == id

\* the query vector the inference endpoint returns for a query: text alone
\* lies before the first record, text with a video behind the records, and a
\* video alone on record 2, at the same distance from records 1 and 3
GenerateQueryEmbedding(text, videoUrl) ==
    IF text = <<>> THEN 2 ELSE IF videoUrl = NoVideo THEN 0 ELSE 10

\* l2 distance of a record to the query vector
Distance(queryEmbedding, id) == Abs(queryEmbedding - EmbeddingOf(id))

\* the orders in which the table may return its records, nearest first
AscendingOrders(queryEmbedding) ==
    {p \in Shuffles :
        \A i, j \in 1..StoreSize :
            i < j => Distance(queryEmbedding, p[i]) <= Distance(queryEmbedding, p[j])}

\* the orders in which a table of the records ids returns them, nearest first
AscendingOrdersOf(ids, queryEmbedding) ==
    {p \in Orders(ids) :
        \A i, j \in DOMAIN p :
            i < j => Distance(queryEmbedding, p[i]) <= Distance(queryEmbedding, p[j])}

\* [arr[i], arr[j]] = [arr[j], arr[i]] that loses arr[j]
SwapOverwriting(arr, i, j) == [arr EXCEPT ![i] = arr[j]]

\* [arr[i], arr[j]] = [arr[j], arr[i]]
Swap(arr, i, j) == [arr EXCEPT ![i] = arr[j], ![j] = arr[i]]

\* the values of j = Math.floor(Math.random() * (i + 1)) of one shuffle of n
\* records, by the (1-based) position i
RandomChoices(n) == {js \in [2..n -> 1..n] : \A i \in 2..n : js[i] <= i}

\* the loop of the Fisher-Yates shuffle, from position i down
RECURSIVE FisherYates(_, _, _)
FisherYates(arr, js, i) ==
    IF i < 2 THEN arr ELSE FisherYates(Swap(arr, i, js[i]), js, i - 1)

\* the shuffled copy of allRecords
Shuffle(allRecords, js) == FisherYates(allRecords, js, Len(allRecords))

\* the createdAt timestamp of a record; records 1 and 2 were created in the
\* same millisecond, and so were records 3 and 4
CreatedAt(id) == (id + 1) \div 2

\* EmbeddingService.getRandomEmbeddings: shuffle, slice; [] when the query throws
GetRandomEmbeddings(limit, shuffled, queryThrows) ==
    IF queryThrows THEN <<>>
    ELSE LET all == [i \in DOMAIN shuffled |-> [id |-> shuffled[i]]]
         IN  Take(all, limit)

\* distanceThreshold left out of a call
NoThreshold == -1

\* EmbeddingService.searchEmbeddings: nearest first, limit; [] when the search
\* throws.  distanceType is always 'l2'; distanceThreshold is a parameter the
\* body never reads ("Basic search without threshold").
SearchEmbeddings(queryEmbedding, limit, distanceThreshold, order, searchThrows) ==
    IF searchThrows THEN <<>>
    ELSE LET all == [i \in DOMAIN order |->
                        [id |-> order[i],
                         distance |-> Distance(queryEmbedding, order[i])]]
         IN  Take(all, limit)

\* the limits a request of the page can carry
Limits == 1..(2 * StoreSize)

\* the query parameters a search request of the page can carry
SearchKeys ==
    {[text |-> Trim(q), videoUrl |-> v] :
        q \in QueryInputs, v \in UploadedUrls \cup {NoVideo}}

\* embedding.getRandom: the pages it can deliver to onSuccess, by limit
RandomPages ==
    [limit \in Limits |->
        {GetRandomEmbeddings(limit, p, f) : p \in Shuffles, f \in BOOLEAN}]

\* embedding.search: the pages it delivers to onSuccess when the table answers
FoundPages ==
    [key \in SearchKeys, limit \in Limits |->
        LET q == GenerateQueryEmbedding(key.text, key.videoUrl)
        IN  {SearchEmbeddings(q, limit, NoThreshold, p, FALSE) : p \in AscendingOrders(q)}]

\* embedding.search: the pages it can deliver to onSuccess
SearchPages ==
    [key \in SearchKeys, limit \in Limits |->
        FoundPages[key, limit] \cup
            {SearchEmbeddings(GenerateQueryEmbedding(key.text, key.videoUrl),
                              limit, NoThreshold, <<>>, TRUE)}]

\* the responses embedding.getRandom can deliver to onSuccess
GetRandomResponses(limit) == RandomPages[limit]

\* the responses embedding.search delivers to onSuccess when the table answers
SearchResults(req) ==
    FoundPages[[text |-> req.text, videoUrl |-> req.videoUrl], req.limit]

\* the responses embedding.search can deliver to onSuccess
SearchResponses(req) ==
    SearchPages[[text |-> req.text, videoUrl |-> req.videoUrl], req.limit]

----------------------------------------------------------------------------
(* The inputs of the router and their validation (zod schemas) *)

\* an optional string field left out of the input
Absent == [present |-> FALSE, value |-> <<>>]

\* an optional string field with the value s
Str(s) == [present |-> TRUE, value |-> s]

\* the characters of the url fal.storage.upload returns
AUrl == <<"u", "1">>

\* z.url(): the strings that parse as a URL
ZUrl(s) == s = AUrl

\* the values of the text field: absent, '', ' ', 'a'
TextFields == {Absent, Str(<<>>), Str(<<" ">>), Str(<<"a">>)}

\* the values of a url field: absent, '', ' ', 'a' (not a URL) and a URL
UrlFields == {Absent, Str(<<>>), Str(<<" ">>), Str(<<"a">>), Str(AUrl)}

\* the && of a string with a condition on it: undefined and '' are falsy
Truthy(f) == f.present /\ f.value # <<>>

\* data.x && data.x.trim().length > 0
HasValue(f) == Truthy(f) /\ Len(Trim(f.value)) > 0

\* z.url().optional().or(z.literal(''))
UrlOrEmpty(f) == ~f.present \/ ZUrl(f.value) \/ f.value = <<>>

\* z.url().optional()
UrlOptional(f) == ~f.present \/ ZUrl(f.value)

\* z.number().min(1).max(100)
LIMIT_MIN == 1
LIMIT_MAX == 100
LimitInRange(limit) == LIMIT_MIN <= limit /\ limit <= LIMIT_MAX

\* createEmbeddingSchema.refine: hasText || hasImageUrl || hasVideoUrl
CreateRefine(input) ==
    HasValue(input.text) \/ HasValue(input.imageUrl) \/ HasValue(input.videoUrl)

\* createEmbeddingSchema: the fields, then the refinement
CreateAccepts(input) ==
    /\ UrlOrEmpty(input.imageUrl)
    /\ UrlOrEmpty(input.videoUrl)
    /\ CreateRefine(input)

\* searchEmbeddingsSchema.refine: data.text || data.imageUrl || data.videoUrl
SearchRefine(input) ==
    Truthy(input.text) \/ Truthy(input.imageUrl) \/ Truthy(input.videoUrl)

\* searchEmbeddingsSchema: the fields, then the refinement
SearchAccepts(input) ==
    /\ UrlOptional(input.imageUrl)
    /\ UrlOptional(input.videoUrl)
    /\ LimitInRange(input.limit)
    /\ SearchRefine(input)

\* the inputs embedding.create is called with
CreateInputs == [text : TextFields, imageUrl : UrlFields, videoUrl : UrlFields]

\* the limits the router is called with: below, at and above the bounds
CallLimits == {LIMIT_MIN - 1, LIMIT_MIN, StoreSize - 1, LIMIT_MAX, LIMIT_MAX + 1}

\* the inputs embedding.search is called with
SearchInputs ==
    [text : TextFields, imageUrl : UrlFields, videoUrl : UrlFields,
     limit : {LIMIT_MIN, StoreSize - 1}]
        \cup [text : {Str(<<"a">>)}, imageUrl : {Absent}, videoUrl : {Absent},
              limit : CallLimits]

\* what the remote services do during a call: nothing wrong, the inference
\* endpoint is unavailable or rejects the input, lancedb cannot be reached
\* (getTable throws), or the table operation of the call throws
Faults ==
    {"none", "inferenceUnavailable", "inferenceRejected", "getTable", "tableOp"}

InferenceFaults == {"inferenceUnavailable", "inferenceRejected"}

\* the message texts of the errors the fal client throws
InferenceMessages == {"m1", "m2"}

\* a reply of the router: the call, what went wrong during it, and the outcome
\* (code "OK" with the items returned, or the code of the TRPCError)
Reply(proc, input, fault, code, message, inferred, items) ==
    [proc |-> proc, input |-> input, fault |-> fault, code |-> code,
     message |-> message, inferred |-> inferred, items |-> items]

\* no call made yet
NoCall == Reply("none", <<>>, "none", "OK", "", FALSE, <<>>)

\* input validation failed: tRPC answers before the resolver runs
BadRequest(proc, input) ==
    Reply(proc, input, "none", "BAD_REQUEST", "invalid input", FALSE, <<>>)

\* the catch block of a procedure: every error becomes INTERNAL_SERVER_ERROR
\* with the message of the error
InternalError(proc, input, fault, message, inferred) ==
    Reply(proc, input, fault, "INTERNAL_SERVER_ERROR", message, inferred, <<>>)

----------------------------------------------------------------------------
(* State *)

VARIABLES
    searchQuery,        \* useState('')
    uploadedVideoUrl,   \* useState(null)
    isUploading,        \* useState(false)
    searchResults,      \* useState([]): the displayed list, records [id, distance]
    isSearching,        \* useState(false)
    isInitialLoading,   \* useState(true)
    isLoadingMore,      \* useState(false)
    hasMore,            \* useState(true)
    isInSearchMode,     \* useState(false)
    loadedVideoIds,     \* useRef(new Set())
    previousSearchRef,  \* useRef({query: '', videoUrl: null})
    timer,              \* the pending setTimeout of the debounce effect
    initialInFlight,    \* initialRandomMutation calls not yet answered
    searchInFlight,     \* searchMutation calls not yet answered, in issue order
    loadMoreInFlight,   \* loadMoreRandom/loadMoreSearch calls not yet answered
    uploadInFlight,     \* uploadMutation calls not yet answered
    toast,              \* the notification the handler that ran last has shown
    race,               \* observer: two overlapping searches and their responses
    journey,            \* observer: search T, clear, retype T
    table,              \* the ids of the records of the embeddings table
    call,               \* the router call made last, with its fault and its reply
    currentPage,        \* admin page: useState(1)
    selectedVideo,      \* admin page: useState(null)
    showDeleteDialog,   \* admin page: useState(false)
    deletingId,         \* admin page: useState(null)
    listData,           \* admin page: the data of the list query (keepPreviousData)
    listCache,          \* the query cache: the last response of each page's query
    listFetch,          \* the fetch of each page's query: idle, sent or served
    deleteInFlight,     \* the deleteMutation call not yet answered
    deletedIds,         \* observer: the ids whose delete has succeeded
    refetching,         \* observer: the page whose fetch in flight is the refetch
                        \* of deleteMutation.onSuccess, or NoPage
    service,            \* the fields db and table of the EmbeddingService object
    lance,              \* the remote database: whether it has the table
                        \* 'embeddings', and the calls it has received
    getTableCalls       \* the calls of getTable(), each at its await

\* the state of the gallery page
galleryVars ==
    <<searchQuery, uploadedVideoUrl, isUploading, searchResults, isSearching,
      isInitialLoading, isLoadingMore, hasMore, isInSearchMode, loadedVideoIds,
      previousSearchRef, timer, initialInFlight, searchInFlight,
      loadMoreInFlight, uploadInFlight, toast, race, journey>>

\* the state of the server: the table and the call it answered last
serviceVars == <<table, call>>

\* the state of the admin page and of its queries
adminVars ==
    <<currentPage, selectedVideo, showDeleteDialog, deletingId, listData, listCache,
      listFetch, deleteInFlight, deletedIds, refetching>>

\* the state of the lazy initialisation of the service
lazyVars == <<service, lance, getTableCalls>>

\* everything the handlers of the gallery page leave alone
notGalleryVars == <<serviceVars, adminVars, lazyVars>>

vars == <<galleryVars, serviceVars, adminVars, lazyVars>>

\* the number of remote calls not yet answered
InFlight ==
    initialInFlight + Len(searchInFlight) + Len(loadMoreInFlight) + uploadInFlight

\* nothing outstanding: every response has arrived and no timer is pending
Quiescent == InFlight = 0 /\ ~timer.pending

\* the query parameters a request made now would carry
CurrentKey ==
    [text |-> Trim(searchQuery), videoUrl |-> uploadedVideoUrl]

\* the query parameters a search request carries
RequestKey(req) == [text |-> req.text, videoUrl |-> req.videoUrl]

\* the search request the debounce timer issues for the raw values (q, v)
SearchRequest(q, v) ==
    [text |-> Trim(q), videoUrl |-> v, limit |-> SEARCH_LIMIT]

RemoveAt(s, i) == SubSeq(s, 1, i - 1) \o SubSeq(s, i + 1, Len(s))

\* an empty page from a table that holds records: the table call threw
FromFailedStore(data) == StoreSize > 0 /\ data = <<>>

----------------------------------------------------------------------------
(* Pure parts of the handlers *)

\* initialRandomMutation.onSuccess: clear the set, add every id
InitialLoadedIds(loaded, data) == IdSet(data)

SearchLoadedIdsKept(loaded, data) == loaded \cup IdSet(data)

\* searchMutation.onSuccess: clear the set, add every id
SearchLoadedIds(loaded, data) == IdSet(data)

NewVideosUnfiltered(loaded, data) == data

\* load-more onSuccess: data.filter(video => !loadedVideoIds.current.has(video.id))
NewVideos(loaded, data) ==
    LET Unseen(v) == v.id \notin loaded IN SelectSeq(data, Unseen)

LoadMoreLoadedIdsForgotten(loaded, newVideos) == loaded

\* load-more onSuccess: newVideos.forEach(video => loadedVideoIds.current.add(video.id))
LoadMoreLoadedIds(loaded, newVideos) == loaded \cup IdSet(newVideos)

\* e => ({...e, distance: Math.random() * 0.5}), the draws given by d
WithRandomDistance(videos, d) ==
    [i \in DOMAIN videos |-> [id |-> videos[i].id, distance |-> d[i]]]

\* insert x after every element whose distance is not greater (stable)
RECURSIVE InsertByDistance(_, _)
InsertByDistance(sorted, x) ==
    IF sorted = <<>> THEN <<x>>
    ELSE IF sorted[Len(sorted)].distance <= x.distance THEN Append(sorted, x)
    ELSE Append(InsertByDistance(SubSeq(sorted, 1, Len(sorted) - 1), x),
                sorted[Len(sorted)])

\* combined.sort((a, b) => (a.distance || 0) - (b.distance || 0))
RECURSIVE SortByDistance(_)
SortByDistance(list) ==
    IF list = <<>> THEN <<>>
    ELSE InsertByDistance(SortByDistance(SubSeq(list, 1, Len(list) - 1)),
                          list[Len(list)])

\* the new records put in front of the displayed ones
LoadMoreRandomResultsPrepended(prev, newVideos, d) ==
    WithRandomDistance(newVideos, d) \o prev

\* loadMoreRandomMutation.onSuccess: setSearchResults(prev => [...prev, ...new])
LoadMoreRandomResults(prev, newVideos, d) ==
    prev \o WithRandomDistance(newVideos, d)

\* loadMoreSearchMutation.onSuccess: setSearchResults(prev => [...].sort(...))
LoadMoreSearchResults(prev, newVideos) == SortByDistance(prev \o newVideos)

ScrollBlockedIgnoringHasMore == isLoadingMore \/ isSearching \/ isInitialLoading

ScrollBlockedIgnoringLoadingMore == ~hasMore \/ isSearching \/ isInitialLoading

\* handleScroll: if (isLoadingMore || !hasMore || isSearching || isInitialLoading) return
ScrollBlocked == isLoadingMore \/ ~hasMore \/ isSearching \/ isInitialLoading

\* handleScroll: isInSearchMode && (searchQuery.trim() || uploadedVideoUrl)
ScrollLoadsSearch ==
    isInSearchMode /\ (Trim(searchQuery) # <<>> \/ uploadedVideoUrl # NoVideo)

\* the debounce effect compares the raw values with the last issued ones
SameAsPreviousSearch(q, v) ==
    previousSearchRef.query = q /\ previousSearchRef.videoUrl = v

\* the debounce effect takes the clearing branch
IsCleared(q, v) == Trim(q) = <<>> /\ v = NoVideo

(* The debounce effect whose cleanup is not run when the effect returns *)
(* early: the timer of the previous run stays pending.                   *)
DebounceEffectWithoutCleanup(q, v) ==
    IF IsCleared(q, v) THEN
        /\ isInSearchMode' = FALSE
        /\ hasMore' = TRUE
        /\ initialInFlight' = initialInFlight + 1
        /\ timer' = timer
    ELSE IF SameAsPreviousSearch(q, v) THEN
        /\ timer' = timer
        /\ UNCHANGED <<isInSearchMode, hasMore, initialInFlight>>
    ELSE
        /\ timer' = [pending |-> TRUE, query |-> q, videoUrl |-> v]
        /\ UNCHANGED <<isInSearchMode, hasMore, initialInFlight>>

(* The debounce effect, run with the new values q and v of its dependencies *)
(* after the cleanup of its previous run has cleared the pending timer.     *)
DebounceEffect(q, v) ==
    IF IsCleared(q, v) THEN
        /\ isInSearchMode' = FALSE
        /\ hasMore' = TRUE
        /\ initialInFlight' = initialInFlight + 1
        /\ timer' = NoTimer
    ELSE IF SameAsPreviousSearch(q, v) THEN
        /\ timer' = NoTimer
        /\ UNCHANGED <<isInSearchMode, hasMore, initialInFlight>>
    ELSE
        /\ timer' = [pending |-> TRUE, query |-> q, videoUrl |-> v]
        /\ UNCHANGED <<isInSearchMode, hasMore, initialInFlight>>

\* the effect issues a request only in the clearing branch
EffectFits(q, v) == IsCleared(q, v) => InFlight < MaxInFlight

----------------------------------------------------------------------------
(* Observers.  They record which step of a scenario the session has taken;  *)
(* no handler reads them.                                                   *)

\* search T / clear / retype T, after the input changed to (q, v)
JourneyAfterInput(q, v) ==
    IF journey = "searched" /\ q = <<>> /\ v = NoVideo THEN "cleared"
    ELSE IF journey = "cleared" /\ SameAsPreviousSearch(q, v) THEN "retyped"
    ELSE "none"

\* the response to the only search in flight, a text search for the current
\* input, has been applied
JourneyAfterSearch(req, ok) ==
    IF /\ ok
       /\ Len(searchInFlight) = 1
       /\ req.videoUrl = NoVideo
       /\ uploadedVideoUrl = NoVideo
       /\ req.text = Trim(searchQuery)
       /\ SameAsPreviousSearch(searchQuery, uploadedVideoUrl)
    THEN "searched"
    ELSE "none"

\* a search for B is issued while the search for a different A is in flight
RaceAfterIssue(req) ==
    IF Len(searchInFlight) = 1 /\ RequestKey(searchInFlight[1]) # RequestKey(req)
    THEN "overlap"
    ELSE "none"

\* the table's answer to request i (1: for A, 2: for B) is applied
RaceAfterSearch(i, ok) ==
    IF ~ok THEN "none"
    ELSE IF race = "overlap" /\ i = 1 THEN "A"
    ELSE IF race = "overlap" /\ i = 2 THEN "B"
    ELSE IF race = "A" THEN "AB"
    ELSE IF race = "B" THEN "BA"
    ELSE "none"

----------------------------------------------------------------------------
(* Init: the page after mount.  Both effects have run: the mount effect and *)
(* the clearing branch of the debounce effect each called                   *)
(* initialRandomMutation.mutate.                                            *)

(* The admin page.  ITEMS_PER_PAGE is 100 in the source; as with the batch *)
(* sizes of the gallery it is scaled to the store, so that the table fills *)
(* more than one page.                                                      *)

\* const ITEMS_PER_PAGE = 100
ITEMS_PER_PAGE == StoreSize - 1

\* Math.ceil(totalItems / ITEMS_PER_PAGE)
TotalPagesOf(totalItems) == (totalItems + ITEMS_PER_PAGE - 1) \div ITEMS_PER_PAGE

\* the pages a query can be made for
AdminPages == 1..TotalPagesOf(StoreSize)

\* selectedVideo, deletingId = null
NoId == 0

\* no page
NoPage == 0

\* data = undefined
NoData == [defined |-> FALSE, embeddings |-> <<>>, total |-> 0]

\* a fetch of a list query: not fetching, request sent, or answered by the
\* server with a response that has not arrived yet
IdleFetch == [state |-> "idle", response |-> NoData]
SentFetch == [state |-> "sent", response |-> NoData]
ServedFetch(response) == [state |-> "served", response |-> response]

\* the admin page after mount: page 1, its list query fetching
AdminMount ==
    /\ currentPage = 1
    /\ selectedVideo = NoId
    /\ showDeleteDialog = FALSE
    /\ deletingId = NoId
    /\ listData = NoData
    /\ listCache = [p \in AdminPages |-> NoData]
    /\ listFetch = [p \in AdminPages |-> IF p = 1 THEN SentFetch ELSE IdleFetch]
    /\ deleteInFlight = [id |-> NoId, served |-> FALSE]
    /\ deletedIds = {}
    /\ refetching = NoPage

\* private db = null, private table = null; a handle is a positive number
NoHandle == 0

\* the requests that may call getTable() at the same time
Requests == 1..MaxRequests

\* a request that is not inside getTable()
IdleCall == [pc |-> "idle", db |-> NoHandle, table |-> NoHandle]

\* the remote database before any call of this process
Untouched(hasTable) ==
    [hasTable |-> hasTable, connects |-> 0, creates |-> 0, handles |-> 0]

\* new EmbeddingService(): nothing is connected or opened, no call is made
Constructed ==
    /\ service = [db |-> NoHandle, table |-> NoHandle]
    /\ getTableCalls = [r \in Requests |-> IdleCall]

GalleryInit ==
    /\ searchQuery = <<>>
    /\ uploadedVideoUrl = NoVideo
    /\ isUploading = FALSE
    /\ searchResults = <<>>
    /\ isSearching = FALSE
    /\ isInitialLoading = TRUE
    /\ isLoadingMore = FALSE
    /\ hasMore = TRUE
    /\ isInSearchMode = FALSE
    /\ loadedVideoIds = {}
    /\ previousSearchRef = [query |-> <<>>, videoUrl |-> NoVideo]
    /\ timer = NoTimer
    /\ initialInFlight = 2
    /\ searchInFlight = <<>>
    /\ loadMoreInFlight = <<>>
    /\ uploadInFlight = 0
    /\ toast = "none"
    /\ race = "none"
    /\ journey = "none"

\* the gallery page after mount, in front of the full table
Init ==
    /\ GalleryInit
    /\ table = StoreIds
    /\ call = NoCall
    /\ AdminMount
    /\ Constructed
    /\ lance = Untouched(TRUE)

----------------------------------------------------------------------------
(* User input *)

\* onChange of the search input: setSearchQuery, then the debounce effect
SetSearchQuery ==
    \E q \in QueryInputs :
        /\ q # searchQuery
        /\ EffectFits(q, uploadedVideoUrl)
        /\ searchQuery' = q
        /\ DebounceEffect(q, uploadedVideoUrl)
        /\ toast' = "none"
        /\ race' = "none"
        /\ journey' = JourneyAfterInput(q, uploadedVideoUrl)
        /\ UNCHANGED notGalleryVars
        /\ UNCHANGED <<uploadedVideoUrl, isUploading, searchResults, isSearching,
                       isInitialLoading, isLoadingMore, loadedVideoIds,
                       previousSearchRef, searchInFlight, loadMoreInFlight,
                       uploadInFlight>>

\* the "Remove uploaded video" button: setUploadedVideoUrl(null), then the effect
RemoveUploadedVideo ==
    /\ uploadedVideoUrl # NoVideo
    /\ EffectFits(searchQuery, NoVideo)
    /\ uploadedVideoUrl' = NoVideo
    /\ DebounceEffect(searchQuery, NoVideo)
    /\ toast' = "none"
    /\ race' = "none"
    /\ journey' = "none"
    /\ UNCHANGED notGalleryVars
    /\ UNCHANGED <<searchQuery, isUploading, searchResults, isSearching,
                   isInitialLoading, isLoadingMore, loadedVideoIds,
                   previousSearchRef, searchInFlight, loadMoreInFlight,
                   uploadInFlight>>

\* handleFileUpload (file input or drop), the FileReader step included
HandleFileUpload ==
    \E isVideo \in BOOLEAN :
        /\ isVideo => InFlight < MaxInFlight
        /\ IF isVideo
           THEN /\ isUploading' = TRUE
                /\ uploadInFlight' = uploadInFlight + 1
                /\ toast' = "none"
           ELSE /\ toast' = "error"
                /\ UNCHANGED <<isUploading, uploadInFlight>>
        /\ race' = "none"
        /\ UNCHANGED notGalleryVars
        /\ UNCHANGED <<searchQuery, uploadedVideoUrl, searchResults, isSearching,
                       isInitialLoading, isLoadingMore, hasMore, isInSearchMode,
                       loadedVideoIds, previousSearchRef, timer, initialInFlight,
                       searchInFlight, loadMoreInFlight, journey>>

\* the setTimeout callback of the debounce effect, 800ms after the last change
DebounceTimerFires ==
    /\ timer.pending
    /\ InFlight < MaxInFlight
    /\ previousSearchRef' = [query |-> timer.query, videoUrl |-> timer.videoUrl]
    /\ isSearching' = TRUE
    /\ searchInFlight' =
           Append(searchInFlight, SearchRequest(timer.query, timer.videoUrl))
    /\ timer' = NoTimer
    /\ toast' = "none"
    /\ race' = RaceAfterIssue(SearchRequest(timer.query, timer.videoUrl))
    /\ UNCHANGED notGalleryVars
    /\ UNCHANGED <<searchQuery, uploadedVideoUrl, isUploading, searchResults,
                   isInitialLoading, isLoadingMore, hasMore, isInSearchMode,
                   loadedVideoIds, initialInFlight, loadMoreInFlight,
                   uploadInFlight, journey>>

\* handleScroll with the page scrolled past 80%
HandleScroll ==
    /\ ~ScrollBlocked
    /\ InFlight < MaxInFlight
    /\ isLoadingMore' = TRUE
    /\ loadMoreInFlight' =
           Append(loadMoreInFlight,
                  IF ScrollLoadsSearch
                  THEN [kind |-> "search", text |-> Trim(searchQuery),
                        videoUrl |-> uploadedVideoUrl,
                        limit |-> Len(searchResults) + LOAD_MORE_COUNT,
                        key |-> CurrentKey]
                  ELSE [kind |-> "random", text |-> <<>>, videoUrl |-> NoVideo,
                        limit |-> LOAD_MORE_COUNT, key |-> CurrentKey])
    /\ toast' = "none"
    /\ race' = "none"
    /\ UNCHANGED notGalleryVars
    /\ UNCHANGED <<searchQuery, uploadedVideoUrl, isUploading, searchResults,
                   isSearching, isInitialLoading, hasMore, isInSearchMode,
                   loadedVideoIds, previousSearchRef, timer, initialInFlight,
                   searchInFlight, uploadInFlight, journey>>

----------------------------------------------------------------------------
(* Responses *)

\* uploadMutation.onSuccess: setUploadedVideoUrl(data.url), then the effect
UploadOnSuccess(url) ==
    /\ uploadInFlight > 0
    /\ uploadInFlight' = uploadInFlight - 1
    /\ uploadedVideoUrl' = url
    /\ isUploading' = FALSE
    /\ IF url # uploadedVideoUrl
       THEN /\ DebounceEffect(searchQuery, url)
            /\ journey' = "none"
       ELSE UNCHANGED <<isInSearchMode, hasMore, initialInFlight, timer, journey>>
    /\ toast' = "success"
    /\ race' = "none"
    /\ UNCHANGED notGalleryVars
    /\ UNCHANGED <<searchQuery, searchResults, isSearching, isInitialLoading,
                   isLoadingMore, loadedVideoIds, previousSearchRef,
                   searchInFlight, loadMoreInFlight>>

UploadSuccess == \E url \in UploadedUrls : UploadOnSuccess(url)

\* uploadMutation.onError
UploadError ==
    /\ uploadInFlight > 0
    /\ uploadInFlight' = uploadInFlight - 1
    /\ isUploading' = FALSE
    /\ toast' = "error"
    /\ race' = "none"
    /\ journey' = "none"
    /\ UNCHANGED notGalleryVars
    /\ UNCHANGED <<searchQuery, uploadedVideoUrl, searchResults, isSearching,
                   isInitialLoading, isLoadingMore, hasMore, isInSearchMode,
                   loadedVideoIds, previousSearchRef, timer, initialInFlight,
                   searchInFlight, loadMoreInFlight>>

\* initialRandomMutation.onSuccess with the page data, the distances drawn as d
InitialRandomOnSuccess(data, d) ==
    /\ initialInFlight > 0
    /\ initialInFlight' = initialInFlight - 1
    /\ loadedVideoIds' = InitialLoadedIds(loadedVideoIds, data)
    /\ searchResults' = WithRandomDistance(data, d)
    /\ isInitialLoading' = FALSE
    /\ toast' = "none"
    /\ race' = "none"
    /\ journey' = IF FromFailedStore(data) THEN "none" ELSE journey
    /\ UNCHANGED notGalleryVars
    /\ UNCHANGED <<searchQuery, uploadedVideoUrl, isUploading, isSearching,
                   isLoadingMore, hasMore, isInSearchMode, previousSearchRef,
                   timer, searchInFlight, loadMoreInFlight, uploadInFlight>>

InitialRandomSuccess ==
    \E data \in GetRandomResponses(INITIAL_LOAD) :
        \E d \in [DOMAIN data -> RandomDistances] : InitialRandomOnSuccess(data, d)

\* initialRandomMutation.onError
InitialRandomError ==
    /\ initialInFlight > 0
    /\ initialInFlight' = initialInFlight - 1
    /\ isInitialLoading' = FALSE
    /\ toast' = "error"
    /\ race' = "none"
    /\ journey' = "none"
    /\ UNCHANGED notGalleryVars
    /\ UNCHANGED <<searchQuery, uploadedVideoUrl, isUploading, searchResults,
                   isSearching, isLoadingMore, hasMore, isInSearchMode,
                   loadedVideoIds, previousSearchRef, timer, searchInFlight,
                   loadMoreInFlight, uploadInFlight>>

\* searchMutation.onSuccess for the call searchInFlight[i], answered with data
SearchOnSuccess(i, data) ==
    /\ i \in DOMAIN searchInFlight
    /\ searchInFlight' = RemoveAt(searchInFlight, i)
    /\ loadedVideoIds' = SearchLoadedIds(loadedVideoIds, data)
    /\ searchResults' = data
    /\ isSearching' = FALSE
    /\ isInSearchMode' = TRUE
    /\ hasMore' = FALSE
    /\ toast' = "none"
    /\ race' = RaceAfterSearch(i, ~FromFailedStore(data))
    /\ journey' = JourneyAfterSearch(searchInFlight[i], ~FromFailedStore(data))
    /\ UNCHANGED notGalleryVars
    /\ UNCHANGED <<searchQuery, uploadedVideoUrl, isUploading, isInitialLoading,
                   isLoadingMore, previousSearchRef, timer, initialInFlight,
                   loadMoreInFlight, uploadInFlight>>

SearchSuccess ==
    \E i \in DOMAIN searchInFlight :
        \E data \in SearchResponses(searchInFlight[i]) : SearchOnSuccess(i, data)

\* searchMutation.onError (inference failed, or the table could not be opened)
SearchOnError(i) ==
    /\ i \in DOMAIN searchInFlight
    /\ searchInFlight' = RemoveAt(searchInFlight, i)
    /\ isSearching' = FALSE
    /\ toast' = "error"
    /\ race' = "none"
    /\ journey' = "none"
    /\ UNCHANGED notGalleryVars
    /\ UNCHANGED <<searchQuery, uploadedVideoUrl, isUploading, searchResults,
                   isInitialLoading, isLoadingMore, hasMore, isInSearchMode,
                   loadedVideoIds, previousSearchRef, timer, initialInFlight,
                   loadMoreInFlight, uploadInFlight>>

SearchError == \E i \in DOMAIN searchInFlight : SearchOnError(i)

\* the pages a load-more call can be answered with
LoadMoreResponses(req) ==
    IF req.kind = "random" THEN GetRandomResponses(req.limit)
    ELSE SearchResponses(req)

\* loadMoreRandomMutation.onSuccess / loadMoreSearchMutation.onSuccess for the
\* call loadMoreInFlight[i], answered with data, the distances drawn as d
LoadMoreOnSuccess(i, data, d) ==
    /\ i \in DOMAIN loadMoreInFlight
    /\ LET req == loadMoreInFlight[i]
           newVideos == NewVideos(loadedVideoIds, data)
       IN  /\ IF Len(newVideos) = 0
              THEN /\ hasMore' = FALSE
                   /\ UNCHANGED <<loadedVideoIds, searchResults>>
              ELSE /\ loadedVideoIds' = LoadMoreLoadedIds(loadedVideoIds, newVideos)
                   /\ searchResults' =
                          IF req.kind = "random"
                          THEN LoadMoreRandomResults(searchResults, newVideos, d)
                          ELSE LoadMoreSearchResults(searchResults, newVideos)
                   /\ UNCHANGED hasMore
    /\ loadMoreInFlight' = RemoveAt(loadMoreInFlight, i)
    /\ isLoadingMore' = FALSE
    /\ toast' = "none"
    /\ race' = "none"
    /\ journey' = IF FromFailedStore(data) THEN "none" ELSE journey
    /\ UNCHANGED notGalleryVars
    /\ UNCHANGED <<searchQuery, uploadedVideoUrl, isUploading, isSearching,
                   isInitialLoading, isInSearchMode, previousSearchRef, timer,
                   initialInFlight, searchInFlight, uploadInFlight>>

LoadMoreSuccess ==
    \E i \in DOMAIN loadMoreInFlight :
        \E data \in LoadMoreResponses(loadMoreInFlight[i]) :
            \E d \in [DOMAIN NewVideos(loadedVideoIds, data) -> RandomDistances] :
                LoadMoreOnSuccess(i, data, d)

\* loadMoreRandomMutation.onError / loadMoreSearchMutation.onError
LoadMoreOnError(i) ==
    /\ i \in DOMAIN loadMoreInFlight
    /\ loadMoreInFlight' = RemoveAt(loadMoreInFlight, i)
    /\ isLoadingMore' = FALSE
    /\ toast' = "none"
    /\ race' = "none"
    /\ journey' = "none"
    /\ UNCHANGED notGalleryVars
    /\ UNCHANGED <<searchQuery, uploadedVideoUrl, isUploading, searchResults,
                   isSearching, isInitialLoading, hasMore, isInSearchMode,
                   loadedVideoIds, previousSearchRef, timer, initialInFlight,
                   searchInFlight, uploadInFlight>>

LoadMoreError == \E i \in DOMAIN loadMoreInFlight : LoadMoreOnError(i)

----------------------------------------------------------------------------

Next ==
    \/ SetSearchQuery
    \/ RemoveUploadedVideo
    \/ HandleFileUpload
    \/ DebounceTimerFires
    \/ HandleScroll
    \/ UploadSuccess
    \/ UploadError
    \/ InitialRandomSuccess
    \/ InitialRandomError
    \/ SearchSuccess
    \/ SearchError
    \/ LoadMoreSuccess
    \/ LoadMoreError

Spec == Init /\ [][Next]_vars

TypeOK ==
    /\ searchQuery \in QueryInputs
    /\ uploadedVideoUrl \in UploadedUrls \cup {NoVideo}
    /\ loadedVideoIds \subseteq StoreIds
    /\ InFlight <= MaxInFlight
    /\ toast \in {"none", "error", "success"}
    /\ race \in {"none", "overlap", "A", "B", "AB", "BA"}
    /\ journey \in {"none", "searched", "cleared", "retyped"}

----------------------------------------------------------------------------
(* The router and the service.  A call is answered in one step: validation *)
(* of the input, the remote calls of the resolver in the order of the      *)
(* code, and the reply.  The environment chooses what goes wrong.          *)

\* the text the inference endpoint receives for a text field
WireText(f) == IF f.present THEN f.value ELSE <<>>

\* the video the inference endpoint receives for a videoUrl field
WireVideo(f) == IF f.present THEN "u1" ELSE NoVideo

\* getEmbeddingById found no record (null)
NoRecord == 0

\* EmbeddingService.getEmbeddingById: null when the id is not in the table
\* and when the query throws
GetEmbeddingById(id, queryThrows) ==
    IF queryThrows THEN NoRecord
    ELSE IF id \in table THEN id ELSE NoRecord

\* the sort of getRecentEmbeddings: b.createdAt - a.createdAt, stable
RECURSIVE InsertByCreatedAt(_, _)
InsertByCreatedAt(sorted, x) ==
    IF sorted = <<>> THEN <<x>>
    ELSE IF Head(sorted).createdAt < x.createdAt THEN <<x>> \o sorted
    ELSE <<Head(sorted)>> \o InsertByCreatedAt(Tail(sorted), x)

RECURSIVE SortByCreatedAt(_)
SortByCreatedAt(list) ==
    IF list = <<>> THEN <<>>
    ELSE InsertByCreatedAt(SortByCreatedAt(SubSeq(list, 1, Len(list) - 1)),
                           list[Len(list)])

\* getRecentEmbeddings without the sort
GetRecentEmbeddingsUnsorted(limit, allRecords) ==
    Take([i \in DOMAIN allRecords |->
             [id |-> allRecords[i], createdAt |-> CreatedAt(allRecords[i])]],
         limit)

\* EmbeddingService.getRecentEmbeddings: map, sort by createdAt descending, slice
GetRecentEmbeddings(limit, allRecords) ==
    Take(SortByCreatedAt(
             [i \in DOMAIN allRecords |->
                 [id |-> allRecords[i], createdAt |-> CreatedAt(allRecords[i])]]),
         limit)

\* findSimilar: filter out the source video, slice(0, limit)
SimilarVideos(videoId, limit, similarVideos) ==
    Take(SelectSeq(similarVideos, LAMBDA v : v.id # videoId), limit)

(* findSimilar takes a limit of 5..50 (default 20).  As with the batch sizes *)
(* of the page, the limits are scaled to the store: what the resolver        *)
(* depends on is whether limit + 1 records exist.                            *)
FindSimilarLimits == 1..(StoreSize - 1)

\* the distanceThreshold values findSimilar is called with
Thresholds == {NoThreshold, 0, 1}

\* the table after an add that drops the records it held
AddRecordReplacing(ids, id) == {id}

\* table.add([record]): the record is appended to the table
AddRecord(ids, id) == ids \cup {id}

\* the server in front of any table
ServiceInit ==
    /\ GalleryInit
    /\ table \in SUBSET StoreIds
    /\ call = NoCall
    /\ AdminMount
    /\ Constructed
    /\ lance = Untouched(TRUE)

\* embedding.create: createEmbeddingSchema, then EmbeddingService.createEmbedding
\* (inference, getTable, table.add of a record with a fresh uuid)
Create ==
    \E input \in CreateInputs :
        /\ IF ~CreateAccepts(input) THEN
               /\ call' = BadRequest("create", input)
               /\ table' = table
           ELSE
               \E fault \in Faults :
                   IF fault \in InferenceFaults THEN
                       /\ \E msg \in InferenceMessages :
                              call' = InternalError("create", input, fault, msg, TRUE)
                       /\ table' = table
                   ELSE IF fault # "none" THEN
                       /\ call' = InternalError("create", input, fault, "store", TRUE)
                       /\ table' = table
                   ELSE
                       \E id \in StoreIds \ table :
                           /\ call' = Reply("create", input, fault, "OK", "", TRUE,
                                            <<[id |-> id]>>)
                           /\ table' = AddRecord(table, id)
        /\ UNCHANGED <<galleryVars, adminVars, lazyVars>>

\* embedding.search: searchEmbeddingsSchema, generateQueryEmbedding, then
\* searchEmbeddings(queryEmbedding, input.limit)
Search ==
    \E input \in SearchInputs :
        LET q == GenerateQueryEmbedding(WireText(input.text),
                                        WireVideo(input.videoUrl))
        IN  /\ IF ~SearchAccepts(input) THEN
                   call' = BadRequest("search", input)
               ELSE
                   \E fault \in Faults :
                       IF fault \in InferenceFaults THEN
                           \E msg \in InferenceMessages :
                               call' = InternalError("search", input, fault, msg, TRUE)
                       ELSE IF fault = "getTable" THEN
                           call' = InternalError("search", input, fault, "store", TRUE)
                       ELSE
                           \E order \in AscendingOrdersOf(table, q) :
                               call' = Reply("search", input, fault, "OK", "", TRUE,
                                             SearchEmbeddings(q, input.limit,
                                                 NoThreshold, order,
                                                 fault = "tableOp"))
            /\ UNCHANGED <<table, galleryVars, adminVars, lazyVars>>

\* embedding.findSimilar: getEmbeddingById, NOT_FOUND on null, then
\* searchEmbeddings(embedding, limit + 1, 'l2', distanceThreshold), the filter
\* and the slice.  "tableOp" is a throw of the lookup, "search" of the search.
FindSimilar ==
    \E videoId \in StoreIds, limit \in FindSimilarLimits,
       distanceThreshold \in Thresholds,
       fault \in {"none", "getTable", "tableOp", "search"} :
        LET input == [videoId |-> videoId, limit |-> limit,
                      distanceThreshold |-> distanceThreshold]
            sourceVideo == GetEmbeddingById(videoId, fault = "tableOp")
        IN  /\ IF fault = "getTable" THEN
                   call' = InternalError("findSimilar", input, fault, "store", FALSE)
               ELSE IF sourceVideo = NoRecord THEN
                   call' = Reply("findSimilar", input, fault, "NOT_FOUND",
                                 "not found", FALSE, <<>>)
               ELSE
                   \E order \in AscendingOrdersOf(table, EmbeddingOf(sourceVideo)) :
                       call' = Reply("findSimilar", input, fault, "OK", "", FALSE,
                                     SimilarVideos(videoId, limit,
                                         SearchEmbeddings(EmbeddingOf(sourceVideo),
                                                          limit + 1, distanceThreshold,
                                                          order, fault = "search")))
            /\ UNCHANGED <<table, galleryVars, adminVars, lazyVars>>

\* embedding.getRandom: the limit is validated, then getRandomEmbeddings(limit)
GetRandom ==
    \E limit \in CallLimits :
        /\ IF ~LimitInRange(limit) THEN
               call' = BadRequest("getRandom", [limit |-> limit])
           ELSE
               \E fault \in {"none", "getTable", "tableOp"} :
                   IF fault = "getTable" THEN
                       call' = InternalError("getRandom", [limit |-> limit], fault,
                                             "store", FALSE)
                   ELSE
                       \E allRecords \in Orders(table),
                          js \in RandomChoices(Cardinality(table)) :
                           call' = Reply("getRandom", [limit |-> limit], fault,
                                         "OK", "", FALSE,
                                         GetRandomEmbeddings(limit,
                                             Shuffle(allRecords, js),
                                             fault = "tableOp"))
        /\ UNCHANGED <<table, galleryVars, adminVars, lazyVars>>

\* embedding.list: the limit is validated, then getRecentEmbeddings(limit),
\* which has no catch of its own
List ==
    \E limit \in CallLimits :
        /\ IF ~LimitInRange(limit) THEN
               call' = BadRequest("list", [limit |-> limit])
           ELSE
               \E fault \in {"none", "getTable", "tableOp"} :
                   IF fault # "none" THEN
                       call' = InternalError("list", [limit |-> limit], fault,
                                             "store", FALSE)
                   ELSE
                       \E allRecords \in Orders(table) :
                           call' = Reply("list", [limit |-> limit], fault, "OK", "",
                                         FALSE, GetRecentEmbeddings(limit, allRecords))
        /\ UNCHANGED <<table, galleryVars, adminVars, lazyVars>>

ServiceNext ==
    \/ Create
    \/ Search
    \/ FindSimilar
    \/ GetRandom
    \/ List

ServiceSpec == ServiceInit /\ [][ServiceNext]_vars

----------------------------------------------------------------------------
(* The admin page (AdminPage) and its list query and delete mutation.  The  *)
(* procedures it calls, embedding.list(limit, offset) -> {embeddings,      *)
(* total} and embedding.delete(id), are not part of the router sources;     *)
(* they are modelled from the specification: an offset window over the      *)
(* listing by createdAt descending, and the removal of the record.  The     *)
(* server answers a request in one step and the response arrives in a       *)
(* later one.                                                                *)

\* embedding.list(limit, offset): the window of the recent listing and the
\* number of records
ListPage(limit, offset, allRecords) ==
    LET sorted == GetRecentEmbeddings(Len(allRecords), allRecords)
        last == IF offset + limit < Len(sorted) THEN offset + limit ELSE Len(sorted)
    IN  [defined |-> TRUE,
         embeddings |-> SubSeq(sorted, offset + 1, last),
         total |-> Len(sorted)]

\* embedding.delete(id): removes the record; idempotent
DeleteRecord(ids, id) == ids \ {id}

\* const offset = (currentPage - 1) * ITEMS_PER_PAGE, for the query of a page
Offset(page) == (page - 1) * ITEMS_PER_PAGE

\* const totalPages = Math.ceil((data?.total || 0) / ITEMS_PER_PAGE)
totalPages == TotalPagesOf(listData.total)

\* deleteMutation.onSuccess without the refetch
RefetchSkipped(fetch, page) == fetch

\* refetch() of the query of the page: a fetch in flight is cancelled and a
\* new one is sent
Refetch(fetch, page) == [fetch EXCEPT ![page] = SentFetch]

\* the observer moves to the query of the page: it fetches unless a fetch of
\* that query is in flight already
FetchOnKeyChange(fetch, page) ==
    IF fetch[page].state = "idle" THEN [fetch EXCEPT ![page] = SentFetch]
    ELSE fetch

\* no request of the admin page is outstanding
AdminQuiescent ==
    /\ \A p \in AdminPages : listFetch[p].state = "idle"
    /\ deleteInFlight.id = NoId

\* everything the admin page and the store leave alone
notAdminVars == <<galleryVars, call, lazyVars>>

AdminInit ==
    /\ GalleryInit
    /\ table = StoreIds
    /\ call = NoCall
    /\ AdminMount
    /\ Constructed
    /\ lance = Untouched(TRUE)

\* goToPage(page), from the pagination buttons
GoToPage ==
    \E page \in 0..(TotalPagesOf(StoreSize) + 1) :
        /\ page >= 1 /\ page <= totalPages
        /\ page # currentPage
        /\ currentPage' = page
        /\ listData' = IF listCache[page].defined THEN listCache[page] ELSE listData
        /\ listFetch' = FetchOnKeyChange(listFetch, page)
        /\ UNCHANGED <<selectedVideo, showDeleteDialog, deletingId, listCache,
                       deleteInFlight, deletedIds, table, refetching,
                   notAdminVars>>

\* the server answers a list request
ListServed ==
    \E p \in AdminPages, allRecords \in Orders(table) :
        /\ listFetch[p].state = "sent"
        /\ listFetch' =
               [listFetch EXCEPT
                    ![p] = ServedFetch(ListPage(ITEMS_PER_PAGE, Offset(p), allRecords))]
        /\ UNCHANGED <<currentPage, selectedVideo, showDeleteDialog, deletingId,
                       listData, listCache, deleteInFlight, deletedIds,
                       table, refetching,
                   notAdminVars>>

\* the response of a list request arrives
ListOnSuccess(p) ==
    /\ listFetch[p].state = "served"
    /\ listCache' = [listCache EXCEPT ![p] = listFetch[p].response]
    /\ listData' = IF p = currentPage THEN listFetch[p].response ELSE listData
    /\ listFetch' = [listFetch EXCEPT ![p] = IdleFetch]
    /\ refetching' = IF refetching = p THEN NoPage ELSE refetching
    /\ UNCHANGED <<currentPage, selectedVideo, showDeleteDialog, deletingId,
                   deleteInFlight, deletedIds, table, notAdminVars>>

ListSuccess == \E p \in AdminPages : ListOnSuccess(p)

\* a list request fails: the query keeps its data
ListError ==
    \E p \in AdminPages :
        /\ listFetch[p].state = "sent"
        /\ listFetch' = [listFetch EXCEPT ![p] = IdleFetch]
        /\ refetching' = IF refetching = p THEN NoPage ELSE refetching
        /\ UNCHANGED <<currentPage, selectedVideo, showDeleteDialog, deletingId,
                       listData, listCache, deleteInFlight, deletedIds, table,
                       notAdminVars>>

\* handleDelete(item.id), from the delete button of a displayed item
HandleDelete ==
    \E i \in DOMAIN listData.embeddings :
        /\ ~showDeleteDialog
        /\ selectedVideo' = listData.embeddings[i].id
        /\ showDeleteDialog' = TRUE
        /\ UNCHANGED <<currentPage, deletingId, listData, listCache, listFetch,
                       deleteInFlight, deletedIds, table, refetching,
                   notAdminVars>>

\* onOpenChange(false) of the dialog
CloseDialog ==
    /\ showDeleteDialog
    /\ showDeleteDialog' = FALSE
    /\ UNCHANGED <<currentPage, selectedVideo, deletingId, listData, listCache,
                   listFetch, deleteInFlight, deletedIds, table,
                   refetching,
                   notAdminVars>>

\* confirmDelete, from the Delete button of the dialog (disabled while deleting)
ConfirmDelete ==
    /\ showDeleteDialog
    /\ deletingId = NoId
    /\ selectedVideo # NoId
    /\ deletingId' = selectedVideo
    /\ deleteInFlight' = [id |-> selectedVideo, served |-> FALSE]
    /\ UNCHANGED <<currentPage, selectedVideo, showDeleteDialog, listData,
                   listCache, listFetch, deletedIds, table, refetching,
                   notAdminVars>>

\* the server answers the delete request
DeleteServed ==
    /\ deleteInFlight.id # NoId
    /\ ~deleteInFlight.served
    /\ table' = DeleteRecord(table, deleteInFlight.id)
    /\ deleteInFlight' = [deleteInFlight EXCEPT !.served = TRUE]
    /\ UNCHANGED <<currentPage, selectedVideo, showDeleteDialog, deletingId,
                   listData, listCache, listFetch, deletedIds,
                   refetching,
                   notAdminVars>>

\* deleteMutation.onSuccess, then onSettled
DeleteOnSuccess ==
    /\ deleteInFlight.id # NoId
    /\ deleteInFlight.served
    /\ showDeleteDialog' = FALSE
    /\ selectedVideo' = NoId
    /\ listFetch' = Refetch(listFetch, currentPage)
    /\ deletingId' = NoId
    /\ deleteInFlight' = [id |-> NoId, served |-> FALSE]
    /\ deletedIds' = deletedIds \cup {deleteInFlight.id}
    /\ refetching' = currentPage
    /\ UNCHANGED <<currentPage, listData, listCache, table,
                   notAdminVars>>

\* deleteMutation.onError, then onSettled
DeleteOnError ==
    /\ deleteInFlight.id # NoId
    /\ ~deleteInFlight.served
    /\ deletingId' = NoId
    /\ deleteInFlight' = [id |-> NoId, served |-> FALSE]
    /\ UNCHANGED <<currentPage, selectedVideo, showDeleteDialog, listData,
                   listCache, listFetch, deletedIds, table,
                   refetching,
                   notAdminVars>>

AdminNext ==
    \/ GoToPage
    \/ ListServed
    \/ ListSuccess
    \/ ListError
    \/ HandleDelete
    \/ CloseDialog
    \/ ConfirmDelete
    \/ DeleteServed
    \/ DeleteOnSuccess
    \/ DeleteOnError

AdminSpec == AdminInit /\ [][AdminNext]_vars

----------------------------------------------------------------------------
(* The lazy initialisation of the service: getDb() and getTable().  Every   *)
(* request of the router calls getTable() on the one embeddingService       *)
(* object; a call runs up to its next await in one step, and the calls of   *)
(* other requests run in between.  The remote database answers createTable  *)
(* for a table that exists with an error.                                   *)

\* everything getDb() and getTable() leave alone
notLazyVars == <<galleryVars, serviceVars, adminVars>>

\* the call r with its position and locals replaced
Moved(r, pc, db, handle) ==
    [getTableCalls EXCEPT ![r] = [pc |-> pc, db |-> db, table |-> handle]]

LazyInit ==
    /\ GalleryInit
    /\ table = StoreIds
    /\ call = NoCall
    /\ AdminMount
    /\ Constructed
    /\ lance \in {Untouched(hasTable) : hasTable \in BOOLEAN}

\* getTable() is called: the cached table is returned, or getDb() is called,
\* which returns the cached connection or calls lancedb.connect
GetTable ==
    \E r \in Requests :
        /\ getTableCalls[r].pc = "idle"
        /\ IF service.table # NoHandle THEN
               /\ getTableCalls' = Moved(r, "returned", NoHandle, service.table)
               /\ lance' = lance
           ELSE IF service.db # NoHandle THEN
               /\ getTableCalls' = Moved(r, "tableNames", service.db, NoHandle)
               /\ lance' = lance
           ELSE
               /\ getTableCalls' = Moved(r, "connect", lance.connects + 1, NoHandle)
               /\ lance' = [lance EXCEPT !.connects = lance.connects + 1]
        /\ UNCHANGED <<service, notLazyVars>>

\* lancedb.connect resolves: this.db = ..., return this.db, db.tableNames()
Connected ==
    \E r \in Requests :
        /\ getTableCalls[r].pc = "connect"
        /\ service' = [service EXCEPT !.db = getTableCalls[r].db]
        /\ getTableCalls' = Moved(r, "tableNames", getTableCalls[r].db, NoHandle)
        /\ UNCHANGED <<lance, notLazyVars>>

\* db.tableNames() resolves: openTable or createTable is called
TableNamesListed ==
    \E r \in Requests :
        /\ getTableCalls[r].pc = "tableNames"
        /\ IF lance.hasTable THEN
               /\ getTableCalls' =
                      Moved(r, "openTable", getTableCalls[r].db, NoHandle)
               /\ lance' = lance
           ELSE
               /\ getTableCalls' =
                      Moved(r, "createTable", getTableCalls[r].db, NoHandle)
               /\ lance' = [lance EXCEPT !.creates = lance.creates + 1]
        /\ UNCHANGED <<service, notLazyVars>>

\* db.openTable('embeddings') resolves: this.table = ..., return this.table
TableOpened ==
    \E r \in Requests :
        /\ getTableCalls[r].pc = "openTable"
        /\ lance' = [lance EXCEPT !.handles = lance.handles + 1]
        /\ service' = [service EXCEPT !.table = lance.handles + 1]
        /\ getTableCalls' =
               Moved(r, "returned", getTableCalls[r].db, lance.handles + 1)
        /\ UNCHANGED notLazyVars

\* db.createTable resolves (this.table = ..., return this.table) or rejects
\* because the table exists by now
TableCreated ==
    \E r \in Requests :
        /\ getTableCalls[r].pc = "createTable"
        /\ IF lance.hasTable THEN
               /\ getTableCalls' = Moved(r, "thrown", getTableCalls[r].db, NoHandle)
               /\ UNCHANGED <<lance, service>>
           ELSE
               /\ lance' = [lance EXCEPT !.hasTable = TRUE,
                                         !.handles = lance.handles + 1]
               /\ service' = [service EXCEPT !.table = lance.handles + 1]
               /\ getTableCalls' =
                      Moved(r, "returned", getTableCalls[r].db, lance.handles + 1)
        /\ UNCHANGED notLazyVars

LazyNext ==
    \/ GetTable
    \/ Connected
    \/ TableNamesListed
    \/ TableOpened
    \/ TableCreated

LazyInitSpec == LazyInit /\ [][LazyNext]_vars

----------------------------------------------------------------------------
(* Properties *)

SortedByDistance(list) ==
    \A i, j \in DOMAIN list : i < j => list[i].distance <= list[j].distance

\* the step answers the search call searchInFlight[i]
SearchAnswered(i) == searchInFlight' = RemoveAt(searchInFlight, i)

\* the step hands a page to the onSuccess of the load-more call loadMoreInFlight[i]
LoadMoreAnswered(i) ==
    /\ loadMoreInFlight' = RemoveAt(loadMoreInFlight, i)
    /\ \E data \in LoadMoreResponses(loadMoreInFlight[i]) :
           \E d \in [DOMAIN NewVideos(loadedVideoIds, data) -> RandomDistances] :
               LoadMoreOnSuccess(i, data, d)

\* the request of the search issued last
LastIssued == SearchRequest(previousSearchRef.query, previousSearchRef.videoUrl)

\* C1: when the search for A was still in flight as the search for B was
\* issued, then once both responses have arrived, in either order, the
\* displayed list is B's response.
StaleSearchResponseDiscarded ==
    race \in {"AB", "BA"} => searchResults \in SearchResults(LastIssued)

\* C2: a load-more response whose request was issued under other query
\* parameters than the current ones adds nothing to the displayed list and
\* leaves hasMore as it is.
StaleLoadMoreDiscarded ==
    [][\A i \in DOMAIN loadMoreInFlight :
         (loadMoreInFlight[i].key # CurrentKey /\ LoadMoreAnswered(i))
             => UNCHANGED <<searchResults, hasMore>>]_vars

\* C3: the displayed list never holds the same id twice.
NoDuplicateIds ==
    \A i, j \in DOMAIN searchResults :
        i # j => searchResults[i].id # searchResults[j].id

\* a load-more page has been merged and every record of the store is displayed
AllRecordsDisplayed ==
    /\ ~isInSearchMode
    /\ Len(searchResults) = StoreSize
    /\ Len(searchResults) > INITIAL_LOAD

\* C4: loadedVideoIds is exactly the set of the displayed ids.
LoadedIdsAreDisplayedIds == loadedVideoIds = IdSet(searchResults)

\* a search page has been applied and a late load-more page merged into it
SearchPageExtended ==
    /\ isInSearchMode
    /\ Len(searchResults) > SEARCH_LIMIT
    /\ loadedVideoIds # {}

\* C5: when the response of a search is applied, loadedVideoIds becomes exactly
\* the ids of that response.
SearchResponseResetsLoadedIds ==
    [][\A i \in DOMAIN searchInFlight :
         SearchAnswered(i) =>
             \A data \in SearchResponses(searchInFlight[i]) :
                 SearchOnSuccess(i, data) => loadedVideoIds' = IdSet(data)]_vars

\* A's response was applied, then B's: the set holds B's ids and has lost one
SwitchedToSecondQuery ==
    /\ race = "AB"
    /\ searchResults \in SearchResults(LastIssued)
    /\ loadedVideoIds = IdSet(searchResults)
    /\ loadedVideoIds # StoreIds

\* C6: in Search mode the displayed list is sorted by non-decreasing distance.
SearchModeListSorted == isInSearchMode => SortedByDistance(searchResults)

\* C7: a failed gallery request (the call rejected, or the table call thrown
\* and answered with an empty page) leaves the displayed list as it was.
FailureKeepsDisplayedList ==
    [][searchResults' # searchResults =>
           ~(\/ InitialRandomError
             \/ InitialRandomOnSuccess(<<>>, <<>>)
             \/ \E i \in DOMAIN searchInFlight :
                    SearchOnError(i) \/ SearchOnSuccess(i, <<>>)
             \/ \E i \in DOMAIN loadMoreInFlight :
                    LoadMoreOnError(i) \/ LoadMoreOnSuccess(i, <<>>, <<>>))]_vars

\* C8: every rejected remote call of the page shows an error toast.
EveryErrorToasted ==
    [][toast' # "error" =>
           ~(\/ InitialRandomError
             \/ UploadError
             \/ \E i \in DOMAIN searchInFlight : SearchOnError(i)
             \/ \E i \in DOMAIN loadMoreInFlight : LoadMoreOnError(i))]_vars

RetypeShowsSearchAgain ==
    (journey = "retyped" /\ Quiescent)
        => \E page \in SearchResults(SearchRequest(searchQuery, uploadedVideoUrl)) :
               IdCount(searchResults) = IdCount(page)

\* a step that issues a search request
SearchIssued == Len(searchInFlight') > Len(searchInFlight)

\* the search request issued by the step
IssuedRequest == searchInFlight'[Len(searchInFlight')]

\* C19: a search request is issued only when the active query (text,
\* uploaded video) differs from the query of the search request issued
\* before it; two consecutive search requests never carry the same
\* (text, videoUrl).
IdenticalQuerySuppressed ==
    [][SearchIssued
           => /\ CurrentKey # RequestKey(LastIssued)
              /\ RequestKey(IssuedRequest) # RequestKey(LastIssued)]_vars

\* C20: a pending debounce timer is the timer of the current, non-empty
\* input (a change of the input has cancelled the timer of the input before
\* it, so one timer at most is pending); a search request is issued only by
\* a pending timer that fires, and carries the values the input has then.
Debounce ==
    /\ [](timer.pending
              => /\ timer.query = searchQuery
                 /\ timer.videoUrl = uploadedVideoUrl
                 /\ ~IsCleared(searchQuery, uploadedVideoUrl))
    /\ [][SearchIssued
              => /\ timer.pending /\ ~timer'.pending
                 /\ searchQuery' = searchQuery
                 /\ uploadedVideoUrl' = uploadedVideoUrl
                 /\ IssuedRequest = SearchRequest(searchQuery, uploadedVideoUrl)
                 /\ Len(searchInFlight') = Len(searchInFlight) + 1]_vars

\* a request is in flight and the timer of a changed input is pending
TimerPendingAfterChange ==
    /\ Len(searchInFlight) = 1
    /\ timer.pending
    /\ timer.query # previousSearchRef.query
    /\ searchInFlight[1] =
           SearchRequest(previousSearchRef.query, previousSearchRef.videoUrl)

\* the ids of a list, in its order
IdsOf(list) == [i \in DOMAIN list |-> list[i].id]

\* the query input is empty: no non-whitespace text and no uploaded video
InputEmpty == IsCleared(searchQuery, uploadedVideoUrl)

\* a search has been issued in this session
HasSearched == previousSearchRef # [query |-> <<>>, videoUrl |-> NoVideo]

\* the step hands a page to the onSuccess of the only initialRandomMutation
\* call in flight
LastInitialAnswered ==
    /\ initialInFlight = 1
    /\ initialInFlight' = 0
    /\ toast' # "error"

\* C21: a step in which the query input becomes empty issues one random-sample
\* request (with the initial limit); when the response to it is applied in a
\* session that has searched and whose input is still empty, the displayed
\* list is exactly a random sample of the initial limit and hasMore is true.
SearchToBrowse ==
    /\ [][(~InputEmpty /\ InputEmpty') => initialInFlight' = initialInFlight + 1]_vars
    /\ [][(LastInitialAnswered /\ HasSearched /\ InputEmpty)
              => /\ \E data \in GetRandomResponses(INITIAL_LOAD) :
                        IdsOf(searchResults') = IdsOf(data)
                 /\ hasMore']_vars

\* the session shows the page of the search for the current, non-empty input,
\* the table holds records that are not displayed, and nothing is loading
SearchNotExhausted ==
    /\ isInSearchMode
    /\ ~InputEmpty
    /\ ~isLoadingMore /\ ~isSearching /\ ~isInitialLoading
    /\ searchResults \in SearchResults(SearchRequest(searchQuery, uploadedVideoUrl))
    /\ IdSet(searchResults) # StoreIds

\* the records of a page whose ids are not displayed
NotDisplayed(data) ==
    LET Unseen(v) == v.id \notin IdSet(searchResults) IN SelectSeq(data, Unseen)

\* C22: while a query is active and its results are not exhausted, a scroll
\* event issues a load-more search (with the limit enlarged by the increment);
\* the response to a load-more search is filtered to the ids not displayed,
\* merged into the list by a stable sort on distance, and sets hasMore to
\* false when nothing is left of it.
SearchLoadMore ==
    /\ [](SearchNotExhausted => (~ScrollBlocked /\ ScrollLoadsSearch))
    /\ [][\A i \in DOMAIN loadMoreInFlight :
              (/\ loadMoreInFlight[i].kind = "search"
               /\ loadMoreInFlight[i].limit = SEARCH_LIMIT + LOAD_MORE_COUNT
               /\ loadMoreInFlight' = RemoveAt(loadMoreInFlight, i))
                  => \A data \in LoadMoreResponses(loadMoreInFlight[i]) :
                         LoadMoreOnSuccess(i, data, <<>>)
                             => /\ searchResults' =
                                       SortByDistance(searchResults \o NotDisplayed(data))
                                /\ NotDisplayed(data) = <<>> => ~hasMore']_vars

\* the request the step has added to the load-more calls in flight
IssuedLoadMore == loadMoreInFlight'[Len(loadMoreInFlight')]

ModeConsistency == Quiescent => (isInSearchMode <=> ~InputEmpty)

\* C25: in Search mode hasMore is false, and no load-more call in flight is a
\* search (handleScroll never calls loadMoreSearchMutation.mutate).
SearchModeHasNoMore ==
    /\ isInSearchMode => ~hasMore
    /\ \A i \in DOMAIN loadMoreInFlight : loadMoreInFlight[i].kind # "search"

\* Search mode in which hasMore alone keeps a scroll event from loading more
\* results of the query
SearchModeScrollStopped ==
    /\ SearchNotExhausted
    /\ ~hasMore
    /\ ScrollLoadsSearch
    /\ InFlight < MaxInFlight

\* C26: at most one load-more call is in flight; a step taken while
\* isLoadingMore, isSearching or isInitialLoading is true, or while hasMore is
\* false, issues no load-more request; and isLoadingMore is false after every
\* step that answers a load-more call, with a page or with an error.
OneLoadMoreAtATime ==
    /\ [](Len(loadMoreInFlight) <= 1)
    /\ [][ScrollBlocked => Len(loadMoreInFlight') <= Len(loadMoreInFlight)]_vars
    /\ [][Len(loadMoreInFlight') < Len(loadMoreInFlight) => ~isLoadingMore']_vars

\* a load-more call is in flight and isLoadingMore alone keeps a scroll event
\* from issuing another
LoadMoreOutstanding ==
    /\ Len(loadMoreInFlight) = 1
    /\ isLoadingMore
    /\ hasMore /\ ~isSearching /\ ~isInitialLoading
    /\ InFlight < MaxInFlight

\* C27: isSearching is true while a search call is in flight, and a step sets
\* it to false only when it leaves no search call in flight.
SearchingIndicator ==
    /\ [](Len(searchInFlight) > 0 => isSearching)
    /\ [][(isSearching /\ ~isSearching') => Len(searchInFlight') = 0]_vars

----------------------------------------------------------------------------
(* Properties of the router and the service, stated of the call answered  *)
(* last (specification ServiceSpec)                                        *)

\* a field with a value that is neither empty nor whitespace-only
NonEmptyField(f) == f.present /\ \E i \in DOMAIN f.value : f.value[i] # " "

\* a url field that is absent, empty, whitespace-only or a URL
PlainUrlField(f) == NonEmptyField(f) => ZUrl(f.value)

\* the validation has let the call through to the resolver
Accepted == call.code # "BAD_REQUEST"

Min(a, b) == IF a < b THEN a ELSE b

\* C11: embedding.create is accepted when at least one of text, imageUrl,
\* videoUrl is non-empty (non-whitespace); when all three are absent, empty
\* or whitespace-only it is rejected as an invalid argument, without an
\* inference call and without a record.
CreateValidation ==
    (/\ call.proc = "create"
     /\ PlainUrlField(call.input.imageUrl)
     /\ PlainUrlField(call.input.videoUrl))
        => IF \/ NonEmptyField(call.input.text)
              \/ NonEmptyField(call.input.imageUrl)
              \/ NonEmptyField(call.input.videoUrl)
           THEN Accepted
           ELSE ~Accepted /\ ~call.inferred /\ call.items = <<>>

\* C12: the search input is accepted for exactly the combinations of
\* (text, imageUrl, videoUrl) for which the create input is accepted.
SearchAcceptsWhatCreateAccepts ==
    /\ (call.proc = "search" /\ LimitInRange(call.input.limit))
           => (Accepted <=> CreateAccepts(call.input))
    /\ call.proc = "create"
           => (Accepted <=>
                   SearchAccepts([text |-> call.input.text,
                                  imageUrl |-> call.input.imageUrl,
                                  videoUrl |-> call.input.videoUrl,
                                  limit |-> LIMIT_MIN]))

\* C13: findSimilar of a stored videoId never returns the record videoId and
\* returns at most limit records; it answers NOT_FOUND exactly when videoId is
\* not in the store.
FindSimilarContract ==
    call.proc = "findSimilar" =>
        /\ (call.input.videoId \in table /\ call.code = "OK")
               => /\ \A i \in DOMAIN call.items :
                         call.items[i].id # call.input.videoId
                  /\ Len(call.items) <= call.input.limit
        /\ call.code = "NOT_FOUND" => call.input.videoId \notin table
        /\ (call.input.videoId \notin table /\ call.fault = "none")
               => call.code = "NOT_FOUND"

\* C14: when findSimilar is given a distanceThreshold, no returned record has
\* a distance greater than the threshold.
DistanceThresholdRespected ==
    (/\ call.proc = "findSimilar"
     /\ call.code = "OK"
     /\ call.input.distanceThreshold # NoThreshold)
        => \A i \in DOMAIN call.items :
               call.items[i].distance <= call.input.distanceThreshold

\* C15: getRandom with a limit of 1..100 on a table of N records that answers
\* the query returns exactly min(limit, N) records, each a record of the
\* table and none twice.
RandomSampleWithoutReplacement ==
    (call.proc = "getRandom" /\ call.code = "OK" /\ call.fault = "none")
        => /\ Len(call.items) = Min(call.input.limit, Cardinality(table))
           /\ IdSet(call.items) \subseteq table
           /\ \A i, j \in DOMAIN call.items :
                  i # j => call.items[i].id # call.items[j].id

\* a sample smaller than the table that the shuffle has put out of id order
SampleShuffled ==
    /\ call.proc = "getRandom" /\ call.code = "OK" /\ call.fault = "none"
    /\ Len(call.items) = 2
    /\ Cardinality(table) > 2
    /\ call.items[1].id > call.items[2].id

\* C16: list with a limit of 1..100 returns the min(limit, N) records with the
\* greatest createdAt, in non-increasing createdAt order; a limit above 100
\* is rejected as an invalid argument and returns no record.
RecentListing ==
    call.proc = "list" =>
        /\ call.code = "OK" =>
               /\ Len(call.items) = Min(call.input.limit, Cardinality(table))
               /\ IdSet(call.items) \subseteq table
               /\ \A i, j \in DOMAIN call.items :
                      i < j => /\ call.items[i].id # call.items[j].id
                               /\ call.items[i].createdAt >= call.items[j].createdAt
               /\ \A i \in DOMAIN call.items :
                      /\ call.items[i].createdAt = CreatedAt(call.items[i].id)
                      /\ \A id \in table \ IdSet(call.items) :
                             CreatedAt(id) <= call.items[i].createdAt
        /\ call.input.limit > LIMIT_MAX
               => call.code = "BAD_REQUEST" /\ call.items = <<>>
        /\ (LimitInRange(call.input.limit) /\ call.fault = "none")
               => call.code = "OK"

\* a listing that leaves out a record older than the ones it returns
NewestListed ==
    /\ call.proc = "list" /\ call.code = "OK"
    /\ Len(call.items) = 2
    /\ Cardinality(table) > 2
    /\ call.items[1].createdAt > call.items[2].createdAt

\* C28: a create call that returns successfully leaves the table with exactly
\* one record more, whose id is the id returned; a create call whose inference
\* call fails leaves the table as it was; and no create call removes a record.
CreateAllOrNothing ==
    [][call'.proc = "create"
           => /\ call'.code = "OK"
                  => \E id \in StoreIds \ table :
                         /\ table' = table \cup {id}
                         /\ call'.items = <<[id |-> id]>>
              /\ call'.fault \in InferenceFaults => table' = table
              /\ table \subseteq table']_vars

\* a create call has added its record to a table that held records
CreatedOne ==
    /\ call.proc = "create"
    /\ call.code = "OK"
    /\ Len(call.items) = 1
    /\ call.items[1].id \in table
    /\ Cardinality(table) > 1

\* C17: an unavailable inference service and an input the inference service
\* rejects reach the caller of embedding.search and embedding.create as two
\* outcomes (error code, message) that differ.
InferenceFailuresDistinguished ==
    [][(/\ call.fault = "inferenceUnavailable"
        /\ call'.fault = "inferenceRejected"
        /\ call'.proc = call.proc)
           => <<call.code, call.message>> # <<call'.code, call'.message>>]_vars

----------------------------------------------------------------------------
(* Properties of the admin page (specification AdminSpec) *)

\* the ids of the displayed page
DisplayedIds == IdSet(listData.embeddings)

Max(a, b) == IF a > b THEN a ELSE b

----------------------------------------------------------------------------
(* Properties of the lazy initialisation (specification LazyInitSpec) *)

\* C30: whatever the interleaving of the first requests, lancedb.connect is
\* called at most once and createTable at most once, no call of getTable()
\* throws, and every call that has returned has returned the same handle.
LazyInitOnce ==
    /\ lance.connects <= 1
    /\ lance.creates <= 1
    /\ \A r \in Requests : getTableCalls[r].pc # "thrown"
    /\ \A r1, r2 \in Requests :
           (getTableCalls[r1].pc = "returned" /\ getTableCalls[r2].pc = "returned")
               => getTableCalls[r1].table = getTableCalls[r2].table

====
